---- MODULE Spec2Model ----
(***************************************************************************)
(* Model of raftcpp's NonLeaderLogManager                                  *)
(* (src/log_manager/non_leader_log_manager.cc): the follower-side log      *)
(* store, the replication cursor (next_index_, committed_log_index_), the  *)
(* Push / CommitLogs ingestion path and the timer-driven DoPullLogs.       *)
(***************************************************************************)
EXTENDS Integers, Sequences, FiniteSets, TLC

(* ---- bounds of the model ---- *)
MaxIndex == 2
\* pull requests recorded before the timer is no longer followed
MaxRequests == 1

Indices == 0..MaxIndex
\* the code only compares terms for equality (the predecessor's with pre_log_term,
\* the stored entry's with the incoming one): two values give both outcomes
Terms == {1, 2}
\* log_index values a caller may pass to Push (-1 violates the precondition)
PushIndices == -1..MaxIndex
\* committed_log_index values a caller may pass
CommitIndices == -1..MaxIndex

(* ---- initial values of the cursor (declared in the class header) ---- *)
InitNextIndex == 0
InitCommittedLogIndex == -1

VARIABLES
  all_log_entries_,      \* log_index -> LogEntry, NoEntry where the map has no key
  next_index_,           \* next index to request from the leader
  committed_log_index_,  \* commit frontier
  applied,               \* history of fsm_->OnApply calls: <<[index, data], ...>>
  aborted,               \* a RAFTCPP_CHECK failed (process-fatal)
  last,                  \* the call that produced this state, with what it decided
  checked,               \* indices whose stored entry passed the predecessor check
  leaderLog,             \* the current leader's log: index -> term
  pcPush,                \* position of the receive path inside Push
  call,                  \* arguments of the Push in progress
  boundaries,            \* the values next_index_ held between the step-wise calls of Push
  pcPull,                \* position of the timer callback inside DoPullLogs
  mutex_,                \* TRUE while mutex_ is held
  is_running_,           \* the manager's own flag
  timer_running,         \* the TIMER_PULL_LOGS timer is started
  requests               \* the REQUEST_PULL_LOGS calls sent: <<[node, next_index], ...>>

core == <<all_log_entries_, next_index_, committed_log_index_, applied, aborted>>
pushVars == <<pcPush, call, boundaries>>
pullVars == <<pcPull, mutex_, is_running_, timer_running, requests>>
vars == <<core, last, checked, leaderLog, pushVars, pullVars>>

(* ---- the log store ---- *)
NoEntry == [term |-> 0, data |-> <<>>]
\* the payload of an entry is fixed by its (index, term), as in the leader's log
LogEntry(idx, term) == [term |-> term, data |-> <<idx, term>>]
EmptyStore == [i \in Indices |-> NoEntry]

\* all_log_entries_.find(i) != end() / count(i) > 0
Has(s, i) == i \in DOMAIN s /\ s[i] # NoEntry

StoredIndices(s) == {i \in DOMAIN s : Has(s, i)}

(* ---- Push, step by step ---- *)

\* the predecessor is absent or carries another term than pre_log_term
LackOfPreLog(s, idx, pre_term) ==
  idx > 0 /\ (~Has(s, idx - 1) \/ s[idx - 1].term # pre_term)

\* next_index_ after the predecessor check
NextAfterPreCheck(s, n, idx, pre_term) ==
  IF LackOfPreLog(s, idx, pre_term) THEN idx - 1 ELSE n

\* (mutant) the conflict branch taken without comparing the terms
TermConflictAnyStored(s, idx, term) == Has(s, idx)

\* an entry is stored at idx with another term than the incoming one
TermConflict(s, idx, term) == Has(s, idx) /\ s[idx].term # term

\* (mutant) the erase without the loop
EraseOnlyFirst(s, index) == [s EXCEPT ![index] = NoEntry]

\* (mutant) the erase that clears the whole store
EraseAllEntries(s, index) == EmptyStore

\* while ((it = find(index)) != end()) { erase(it); index++; }
RECURSIVE EraseFrom(_, _)
EraseFrom(s, index) ==
  IF Has(s, index) THEN EraseFrom([s EXCEPT ![index] = NoEntry], index + 1)
  ELSE s

StoreAfterConflict(s, idx, term) ==
  IF TermConflict(s, idx, term) THEN EraseFrom(s, idx) ELSE s

NextAfterConflict(s, n, idx, term) ==
  IF TermConflict(s, idx, term) THEN idx ELSE n

\* all_log_entries_[log_index] = log_entry
StoreEntry(s, idx, e) == [s EXCEPT ![idx] = e]

\* (mutant) the advance with a strict comparison
AdvanceFrontierStrict(n, idx) == IF idx > n THEN idx + 1 ELSE n

\* if (log_index >= next_index_) next_index_ = log_index + 1
AdvanceFrontier(n, idx) == IF idx >= n THEN idx + 1 ELSE n

(* ---- CommitLogs ---- *)

\* (mutant) the apply loop restarted from the first index
LastCommittedFromStart(c, member) == -1

\* const auto last_committed_log_index = committed_log_index;
\* (the parameter, not the member committed_log_index_)
LastCommittedLogIndex(c, member) == c

\* for (index = from; index <= to; ++index) { CHECK(count(index) == 1); OnApply(data) }
RECURSIVE ApplyLoop(_, _, _, _)
ApplyLoop(s, app, index, to) ==
  IF index > to THEN [applied |-> app, aborted |-> FALSE]
  ELSE IF ~Has(s, index) THEN [applied |-> app, aborted |-> TRUE]
  ELSE ApplyLoop(s, Append(app, [index |-> index, data |-> s[index].data]),
                 index + 1, to)

\* (mutant) the early return taken only for an equal index
CommitIsNoopOnlyIfEqual(c, member) == c = member

\* the early return of CommitLogs
CommitIsNoop(c, member) == c <= member

CommitResult(s, member, app, c) ==
  IF CommitIsNoop(c, member)
  THEN [committed |-> member, applied |-> app, aborted |-> FALSE]
  ELSE LET r == ApplyLoop(s, app, LastCommittedLogIndex(c, member) + 1, c)
       IN [committed |-> c, applied |-> r.applied, aborted |-> r.aborted]

(* ---- Push(committed_log_index, pre_log_term, log_entry), as a function ---- *)
\* the state after a Push that passed the log_index check, from store s,
\* next_index_ n, committed_log_index_ member and apply history app
PushEffect(s, n, member, app, c, pre_term, idx, term) ==
  LET n1 == NextAfterPreCheck(s, n, idx, pre_term)
      s2 == StoreAfterConflict(s, idx, term)
      n2 == NextAfterConflict(s, n1, idx, term)
      s3 == StoreEntry(s2, idx, LogEntry(idx, term))
      n3 == AdvanceFrontier(n2, idx)
      r  == CommitResult(s3, member, app, c)
  IN [store |-> s3, next |-> n3, committed |-> r.committed,
      applied |-> r.applied, aborted |-> r.aborted]

(* ---- the record of the last call and of what it decided ---- *)
\* op: the call; idx: log_entry.log_index; lack: the predecessor check failed;
\* conflict: the term conflict branch ran; erased: entries the truncation
\* loop erased; dup: the pushed entry was already stored; from:
\* committed_log_index_ when the call started
NoCall ==
  [op |-> "none", idx |-> 0, lack |-> FALSE, conflict |-> FALSE, erased |-> 0,
   dup |-> FALSE, from |-> InitCommittedLogIndex]

PushCall(idx, lack, conflict, erased, dup, from) ==
  [op |-> "Push", idx |-> idx, lack |-> lack, conflict |-> conflict,
   erased |-> erased, dup |-> dup, from |-> from]

CommitCall(from) == [NoCall EXCEPT !.op = "CommitLogs", !.from = from]

\* a DoPullLogs that found a leader client (sent) or none
PullCall(sent) ==
  [NoCall EXCEPT !.op = IF sent THEN "DoPullLogs:sent" ELSE "DoPullLogs:noleader"]

ErasedBy(s, idx, term) ==
  Cardinality(StoredIndices(s)) - Cardinality(StoredIndices(StoreAfterConflict(s, idx, term)))

(* ---- state after construction ---- *)
InitCore ==
  /\ all_log_entries_ = EmptyStore
  /\ next_index_ = InitNextIndex
  /\ committed_log_index_ = InitCommittedLogIndex
  /\ applied = <<>>
  /\ aborted = FALSE
  /\ last = NoCall

\* (mutant) the check written as log_index > 0
LogIndexCheckFailsAtZero(idx) == idx <= 0

\* RAFTCPP_CHECK(log_entry.log_index >= 0) fails
LogIndexCheckFails(idx) == idx < 0

(* ---- Push, run to completion ---- *)
Push(c, pre_term, idx, term) ==
  /\ ~aborted
  /\ IF LogIndexCheckFails(idx)
     THEN \* RAFTCPP_CHECK(log_entry.log_index >= 0) fails
          /\ aborted' = TRUE
          /\ last' = PushCall(idx, FALSE, FALSE, 0, FALSE, committed_log_index_)
          /\ UNCHANGED <<all_log_entries_, next_index_, committed_log_index_, applied>>
     ELSE \E r \in {PushEffect(all_log_entries_, next_index_, committed_log_index_,
                               applied, c, pre_term, idx, term)} :
             /\ all_log_entries_' = r.store
             /\ next_index_' = r.next
             /\ committed_log_index_' = r.committed
             /\ applied' = r.applied
             /\ aborted' = r.aborted
             /\ last' = PushCall(idx,
                                 LackOfPreLog(all_log_entries_, idx, pre_term),
                                 TermConflict(all_log_entries_, idx, term),
                                 ErasedBy(all_log_entries_, idx, term),
                                 all_log_entries_[idx] = LogEntry(idx, term),
                                 committed_log_index_)

(* ---- CommitLogs(committed_log_index), called on its own ---- *)
CommitLogs(c) ==
  /\ ~aborted
  /\ \E r \in {CommitResult(all_log_entries_, committed_log_index_, applied, c)} :
        /\ committed_log_index_' = r.committed
        /\ applied' = r.applied
        /\ aborted' = r.aborted
  /\ last' = CommitCall(committed_log_index_)
  /\ UNCHANGED <<all_log_entries_, next_index_>>

(* ---- the environment of the manager ---- *)
this_node_id_ == "n1"

\* logs a leader can hold: terms never decrease along the log
LeaderLogs ==
  {l \in [Indices -> Terms] : \A i, j \in Indices : i < j => l[i] <= l[j]}

\* (mutant) the request carrying the initial index instead of next_index_
PullRequestFromStart(n) == [node |-> this_node_id_, next_index |-> InitNextIndex]

\* the arguments of async_call<1>(REQUEST_PULL_LOGS, ...) when next_index_ = n
PullRequest(n) == [node |-> this_node_id_, next_index |-> n]

NoPush == [idx |-> 0, term |-> 0, c |-> InitCommittedLogIndex]

\* the constructor: is_running_(false), the timer registered and not started
InitEnv ==
  /\ checked = {}
  /\ pcPush = "idle"
  /\ call = NoPush
  /\ boundaries = {InitNextIndex}
  /\ pcPull = "idle"
  /\ mutex_ = FALSE
  /\ is_running_ = FALSE
  /\ timer_running = FALSE
  /\ requests = <<>>

(***************************************************************************)
(* Spec: Push and CommitLogs called one after the other, each run to       *)
(* completion.                                                             *)
(***************************************************************************)
\* a call of Push by the receive path; every negative log_index fails the same check
DoPush ==
  /\ \/ \E c \in CommitIndices, pre_term \in Terms, idx \in Indices, term \in Terms :
          Push(c, pre_term, idx, term)
     \/ \E idx \in PushIndices \ Indices : Push(InitCommittedLogIndex, 1, idx, 1)
  /\ UNCHANGED <<checked, leaderLog, pushVars, pullVars>>

DoCommitLogs ==
  /\ \E c \in CommitIndices : CommitLogs(c)
  /\ UNCHANGED <<checked, leaderLog, pushVars, pullVars>>

Init ==
  /\ InitCore
  /\ InitEnv
  /\ leaderLog = [i \in Indices |-> 1]

Next == DoPush \/ DoCommitLogs

Spec == Init /\ [][Next]_vars

(***************************************************************************)
(* Properties of Push and CommitLogs called one after the other (Spec)     *)
(***************************************************************************)
\* the last call advanced committed_log_index_ and returned
Advanced(l, committed, ab) ==
  l.op \in {"Push", "CommitLogs"} /\ ~ab /\ committed > l.from

\* the applier calls the claim expects for the indices p+1..c
ExpectedApplies(s, p, c) ==
  [k \in 1..(c - p) |-> [index |-> p + k, data |-> s[p + k].data]]

\* C1: a CommitLogs(c) with c > committed_index_ = p (called directly or at the
\* end of Push) that returns has invoked the applier once for each index
\* p+1, ..., c, in increasing order, with the payload stored at that index.
C1_AppliesEachNewlyCommitted ==
  [][Advanced(last', committed_log_index_', aborted')
       => applied' = applied \o ExpectedApplies(all_log_entries_',
                                                committed_log_index_,
                                                committed_log_index_')]_vars

\* C2: a CommitLogs that advances committed_index_ over an index that has no
\* stored entry does not return normally: it aborts.
C2_MissingEntryAborts ==
  [][(last'.op \in {"Push", "CommitLogs"}
      /\ committed_log_index_' > committed_log_index_
      /\ \E i \in (committed_log_index_ + 1)..committed_log_index_' :
           ~Has(all_log_entries_', i))
       => aborted']_vars

\* C6: a Push of index k > 0 whose predecessor is absent or term-mismatched
\* leaves next_index = k - 1 and the pushed entry stored at k.
C6_GapRewindsNextIndex ==
  [][(last'.op = "Push" /\ last'.lack /\ ~aborted')
       => /\ next_index_' = last'.idx - 1
          /\ Has(all_log_entries_', last'.idx)]_vars

\* the first index at or above i with no entry in s
RECURSIVE FirstAbsent(_, _)
FirstAbsent(s, i) == IF Has(s, i) THEN FirstAbsent(s, i + 1) ELSE i

\* C7: a Push of an entry at index i whose term differs from the stored one
\* deletes every entry stored at i, i+1, ... up to the first absent index,
\* stores the new entry at i, leaves i+1 absent and next_index = i + 1.
C7_ConflictTruncation ==
  [][(last'.op = "Push" /\ last'.conflict /\ ~aborted')
       => LET i == last'.idx
              end == FirstAbsent(all_log_entries_, i)
          IN /\ \A j \in (i + 1)..(end - 1) : ~Has(all_log_entries_', j)
             /\ Has(all_log_entries_', i)
             /\ all_log_entries_'[i].term # all_log_entries_[i].term
             /\ ~Has(all_log_entries_', i + 1)
             /\ next_index_' = i + 1
             /\ last'.erased = end - i]_vars

\* the scenario: 0,1,2 at term 1, push index 1 term 2 => 0 (old), 1 (new), next 2
C7_Witness ==
  /\ last.op = "Push" /\ last.conflict /\ last.idx = 1 /\ last.erased = 2
  /\ ~aborted
  /\ all_log_entries_[0] = LogEntry(0, 1)
  /\ all_log_entries_[1] = LogEntry(1, 2)
  /\ StoredIndices(all_log_entries_) = {0, 1}
  /\ next_index_ = 2

\* C8: committed_index_ never decreases, and a CommitLogs(c) with
\* c <= committed_index_ changes no state and makes no applier call.
C8_CommitMonotonic ==
  [][/\ committed_log_index_' >= committed_log_index_
     /\ (last'.op = "CommitLogs" /\ committed_log_index_' = last'.from)
          => UNCHANGED core]_vars

\* a CommitLogs that was a no-op after the index had advanced
C8_Witness ==
  /\ last.op = "CommitLogs" /\ ~aborted
  /\ committed_log_index_ = last.from
  /\ committed_log_index_ > InitCommittedLogIndex

C10_PushIdempotent ==
  ~aborted =>
    \A c \in CommitIndices, pre_term \in Terms, idx \in Indices, term \in Terms :
      \A r1 \in {PushEffect(all_log_entries_, next_index_, committed_log_index_,
                            applied, c, pre_term, idx, term)} :
        ~r1.aborted =>
          \A r2 \in {PushEffect(r1.store, r1.next, r1.committed, r1.applied,
                                c, pre_term, idx, term)} :
            /\ r2.store = r1.store
            /\ r2.next = r1.next
            /\ r2.committed = r1.committed
            /\ ~r2.aborted

\* the last Push repeated an entry that was already stored, with the
\* predecessor check failing again
C10_Witness ==
  /\ last.op = "Push" /\ last.dup /\ last.lack /\ ~aborted
  /\ next_index_ = last.idx + 1

\* C12: a Push with log_index < 0 aborts before any state is touched (the log
\* store, next_index and committed_index_ unchanged, no applier call); every
\* other Push (duplicate index, missing or mismatched predecessor, term
\* conflict) completes normally.
C12_NegativeIndexAborts ==
  [][last'.op = "Push"
       => IF last'.idx < 0
          THEN /\ aborted'
               /\ UNCHANGED <<all_log_entries_, next_index_,
                              committed_log_index_, applied>>
          ELSE ~aborted']_vars

\* a Push with a negative index aborted on a manager that holds entries and
\* has committed
C12_Witness ==
  /\ last.op = "Push" /\ last.idx < 0 /\ aborted
  /\ Has(all_log_entries_, 0)
  /\ committed_log_index_ > InitCommittedLogIndex

\* the store s, and s with another payload under the same term at idx
StoresAt(s, idx) ==
  IF Has(s, idx) THEN {s, [s EXCEPT ![idx].data = <<idx>>]} ELSE {s}

\* C19: after every Push that returns normally, the entry stored at
\* log_index is exactly the pushed entry, next_index is at least
\* log_index + 1, and the entries below log_index are as they were, whatever
\* the predecessor check and the conflict check decided.
C19_PushStoresEntry ==
  ~aborted =>
    \A c \in CommitIndices, pre_term \in Terms, idx \in Indices, term \in Terms :
      \A s \in StoresAt(all_log_entries_, idx) :
        \A r \in {PushEffect(s, next_index_, committed_log_index_, applied,
                             c, pre_term, idx, term)} :
          ~r.aborted =>
            /\ r.store[idx] = LogEntry(idx, term)
            /\ r.next >= idx + 1
            /\ \A j \in 0..(idx - 1) : r.store[j] = s[j]

\* the last Push failed the predecessor check, truncated a conflicting
\* suffix, and stored its entry above an entry that is still there
C19_Witness ==
  /\ last.op = "Push" /\ last.lack /\ last.conflict /\ ~aborted
  /\ last.idx > 0
  /\ Has(all_log_entries_, 0)
  /\ Has(all_log_entries_, last.idx)
  /\ next_index_ = last.idx + 1

\* the entries at or below the committed index that the step keeps, with
\* their terms, among those for which exempt(i) is false
CommittedKept(exempt(_)) ==
  \A i \in 0..committed_log_index_ :
    (Has(all_log_entries_, i) /\ ~exempt(i))
      => /\ Has(all_log_entries_', i)
         /\ all_log_entries_'[i].term = all_log_entries_[i].term

NoIndexExempt(i) == FALSE

\* C20 (as stated): an entry stored at an index at or below
\* committed_log_index_ is never deleted and never replaced by an entry of
\* another term by a later Push, whatever its arguments.
C20_CommittedStable ==
  [][last'.op = "Push" => CommittedKept(NoIndexExempt)]_vars

\* C20 (amended): an entry stored at an index at or below
\* committed_log_index_ keeps its place and its term through every later Push,
\* except a Push that finds a stored entry of another term at its own
\* log_index, at or below the entry's index.
C20_CommittedStableUnlessConflict ==
  [][last'.op = "Push"
       => LET ConflictAtOrBelow(i) == last'.conflict /\ last'.idx <= i
          IN CommittedKept(ConflictAtOrBelow)]_vars

\* the last Push truncated a conflicting suffix above the entries that were
\* committed when it started, and those are all still stored
C20_Witness ==
  /\ last.op = "Push" /\ last.conflict /\ last.erased > 1 /\ ~aborted
  /\ last.from >= 0
  /\ last.idx > last.from
  /\ \A i \in 0..last.from : Has(all_log_entries_, i)

(***************************************************************************)
(* SpecPrefix: the same calls of Push, recording for each stored entry     *)
(* whether the Push that stored it found its predecessor in agreement (or  *)
(* ran the truncation).                                                    *)
(***************************************************************************)
\* checked after Push(_, pre_term, idx, term) from store s into store s2: an
\* erased entry loses its mark; the entry at idx keeps its mark when the same
\* entry was already stored, and gains it when the predecessor check passed or
\* the truncation ran
CheckedAfterPush(ch, s, s2, pre_term, idx, term) ==
  LET kept == {i \in ch : Has(s2, i) /\ (i # idx \/ s[idx] = s2[idx])}
      ok == idx > 0 /\ (~LackOfPreLog(s, idx, pre_term) \/ TermConflict(s, idx, term))
  IN IF ok THEN kept \cup {idx} ELSE kept

PushRecorded ==
  /\ \E c \in CommitIndices, pre_term \in Terms, idx \in Indices, term \in Terms :
       /\ Push(c, pre_term, idx, term)
       /\ checked' = CheckedAfterPush(checked, all_log_entries_, all_log_entries_',
                                      pre_term, idx, term)
  /\ UNCHANGED <<leaderLog, pushVars, pullVars>>

NextPrefix == PushRecorded

SpecPrefix == Init /\ [][NextPrefix]_vars

\* C5: every stored entry at an index i > 0 is one for which term agreement
\* with its predecessor was verified at some Push, or re-established by
\* truncation; no entry is retained at i > 0 without such a check succeeding.
C5_PrefixVerified ==
  \A i \in StoredIndices(all_log_entries_) : i > 0 => i \in checked

(***************************************************************************)
(* SpecLeader: every Push carries an entry of the current leader's log     *)
(* with the leader's term at the preceding index; the leader may change.   *)
(***************************************************************************)
PushFromLeader ==
  /\ \E c \in CommitIndices, idx \in Indices :
       Push(c, IF idx > 0 THEN leaderLog[idx - 1] ELSE leaderLog[idx],
            idx, leaderLog[idx])
  /\ UNCHANGED <<checked, leaderLog, pushVars, pullVars>>

LeaderChange ==
  /\ ~aborted
  /\ \E l \in LeaderLogs \ {leaderLog} : leaderLog' = l
  /\ UNCHANGED <<core, last, checked, pushVars, pullVars>>

InitLeader ==
  /\ InitCore
  /\ InitEnv
  /\ leaderLog \in LeaderLogs

NextLeader == PushFromLeader \/ LeaderChange

SpecLeader == InitLeader /\ [][NextLeader]_vars

\* C4: if the follower's entry at index j has the term of the leader's entry
\* at j, then at every index i < j the follower has an entry and its term is
\* the leader's term at i.
C4_LogMatching ==
  \A j \in Indices :
    (Has(all_log_entries_, j) /\ all_log_entries_[j].term = leaderLog[j])
      => \A i \in 0..(j - 1) :
           Has(all_log_entries_, i) /\ all_log_entries_[i].term = leaderLog[i]

(***************************************************************************)
(* SpecConc: the receive path runs Push statement by statement while the   *)
(* timer thread runs DoPullLogs; Run and Stop start and stop the timer.    *)
(***************************************************************************)
\* the timer manager, for the one timer TIMER_PULL_LOGS: StartTimer leaves it
\* running (once, also when it already ran), StopTimer leaves it stopped
StartTimer(running) == TRUE
StopTimer(running) == FALSE
IsTimerRunning(running) == running

\* Run(): StartTimer(TIMER_PULL_LOGS, 1000)
Run ==
  /\ ~aborted
  /\ timer_running' = StartTimer(timer_running)
  /\ UNCHANGED <<core, last, checked, leaderLog, pushVars,
                 pcPull, mutex_, is_running_, requests>>

\* Stop(): StopTimer(TIMER_PULL_LOGS)
Stop ==
  /\ ~aborted
  /\ timer_running' = StopTimer(timer_running)
  /\ UNCHANGED <<core, last, checked, leaderLog, pushVars,
                 pcPull, mutex_, is_running_, requests>>

\* (mutant) IsRunning answered from the manager's own flag
IsRunningFromFlag == is_running_

\* IsRunning(): IsTimerRunning(TIMER_PULL_LOGS)
IsRunning == IsTimerRunning(timer_running)

\* Push enters: the log_index check, the duplicate lookup (the first access to
\* all_log_entries_) and the predecessor check with its write of next_index_
PushEnter ==
  /\ ~aborted /\ pcPush = "idle"
  /\ \E c \in CommitIndices, pre_term \in Terms, idx \in PushIndices, term \in Terms :
       IF LogIndexCheckFails(idx)
       THEN /\ aborted' = TRUE
            /\ UNCHANGED <<all_log_entries_, next_index_, committed_log_index_,
                           applied, pushVars>>
       ELSE /\ next_index_' = NextAfterPreCheck(all_log_entries_, next_index_,
                                                idx, pre_term)
            /\ pcPush' = "conflict"
            /\ call' = [idx |-> idx, term |-> term, c |-> c]
            /\ UNCHANGED <<all_log_entries_, committed_log_index_, applied, aborted,
                           boundaries>>
  /\ UNCHANGED <<last, checked, leaderLog, pullVars>>

\* the conflict check and the truncation
PushConflict ==
  /\ ~aborted /\ pcPush = "conflict"
  /\ all_log_entries_' = StoreAfterConflict(all_log_entries_, call.idx, call.term)
  /\ next_index_' = NextAfterConflict(all_log_entries_, next_index_, call.idx, call.term)
  /\ pcPush' = "store"
  /\ UNCHANGED <<committed_log_index_, applied, aborted, call, boundaries,
                 last, checked, leaderLog, pullVars>>

\* the store of the entry and the advance of next_index_
PushStore ==
  /\ ~aborted /\ pcPush = "store"
  /\ all_log_entries_' = StoreEntry(all_log_entries_, call.idx,
                                    LogEntry(call.idx, call.term))
  /\ next_index_' = AdvanceFrontier(next_index_, call.idx)
  /\ pcPush' = "commit"
  /\ UNCHANGED <<committed_log_index_, applied, aborted, call, boundaries,
                 last, checked, leaderLog, pullVars>>

\* CommitLogs(committed_log_index) and the return of Push
PushCommit ==
  /\ ~aborted /\ pcPush = "commit"
  /\ \E r \in {CommitResult(all_log_entries_, committed_log_index_, applied, call.c)} :
        /\ committed_log_index_' = r.committed
        /\ applied' = r.applied
        /\ aborted' = r.aborted
  /\ pcPush' = "idle"
  /\ call' = NoPush
  /\ boundaries' = boundaries \cup {next_index_}
  /\ UNCHANGED <<all_log_entries_, next_index_, last, checked, leaderLog, pullVars>>

\* the timer fires DoPullLogs, which takes mutex_
PullLock ==
  /\ ~aborted /\ timer_running /\ pcPull = "idle" /\ ~mutex_
  /\ Len(requests) < MaxRequests
  /\ mutex_' = TRUE
  /\ pcPull' = "resolve"
  /\ UNCHANGED <<core, last, checked, leaderLog, pushVars,
                 is_running_, timer_running, requests>>

\* get_leader_rpc_client_func_() returns nullptr: the flag is cleared, the
\* lock released on return
PullNoLeader ==
  /\ ~aborted /\ pcPull = "resolve"
  /\ is_running_' = FALSE
  /\ mutex_' = FALSE
  /\ pcPull' = "idle"
  /\ UNCHANGED <<core, last, checked, leaderLog, pushVars, timer_running, requests>>

\* a client is returned
PullResolved ==
  /\ ~aborted /\ pcPull = "resolve"
  /\ pcPull' = "send"
  /\ UNCHANGED <<core, last, checked, leaderLog, pushVars,
                 mutex_, is_running_, timer_running, requests>>

\* async_call<1>(REQUEST_PULL_LOGS, ..., this_node_id_, next_index_) and return
PullSend ==
  /\ ~aborted /\ pcPull = "send"
  /\ requests' = Append(requests, PullRequest(next_index_))
  /\ mutex_' = FALSE
  /\ pcPull' = "idle"
  /\ UNCHANGED <<core, last, checked, leaderLog, pushVars, is_running_, timer_running>>

NextConc ==
  \/ Run \/ Stop
  \/ PushEnter \/ PushConflict \/ PushStore \/ PushCommit
  \/ PullLock \/ PullNoLeader \/ PullResolved \/ PullSend

SpecConc == Init /\ [][NextConc]_vars

\* a Push is between its first and its last access to the shared state
InPush == pcPush # "idle"
\* a DoPullLogs holds mutex_ and is at its read of next_index_
InPull == pcPull = "send" /\ mutex_

\* C3: a Push and a DoPullLogs that overlap in time are mutually exclusive: no
\* state has one between its first and last access to the log store,
\* next_index and committed_index_ while the other is too.
C3_MutualExclusion == ~(InPush /\ InPull)

\* C17: the next_index carried by a pull request is a value next_index_ held
\* before the first Push or after some Push returned, never a value that
\* exists only in the middle of a Push.
C17_RequestCarriesBoundaryValue ==
  [][Len(requests') > Len(requests)
       => requests'[Len(requests')].next_index \in boundaries]_vars

(***************************************************************************)
(* SpecPull: the lifecycle and the pull loop with every handler run to     *)
(* completion: Run, Stop, the timer's DoPullLogs and the Pushes of the     *)
(* leader's entries.                                                       *)
(***************************************************************************)
\* (mutant) the request sent without the early return
RequestsAfterPullNoReturn(reqs, leader, n) == Append(reqs, PullRequest(n))

\* the requests after one DoPullLogs: none is sent when no client is returned
RequestsAfterPull(reqs, leader, n) ==
  IF leader THEN Append(reqs, PullRequest(n)) ELSE reqs

\* is_running_ after one DoPullLogs: store(false) on the no-leader path only
FlagAfterPull(flag, leader) == IF leader THEN flag ELSE FALSE

\* one DoPullLogs from the lock to the return; leader: a client was returned
DoPullLogs(leader) ==
  /\ ~aborted /\ timer_running /\ pcPull = "idle" /\ ~mutex_
  /\ Len(requests) < MaxRequests
  /\ requests' = RequestsAfterPull(requests, leader, next_index_)
  /\ is_running_' = FlagAfterPull(is_running_, leader)
  /\ last' = PullCall(leader)
  /\ mutex_' = FALSE
  /\ UNCHANGED <<core, checked, leaderLog, pushVars, pcPull, timer_running>>

TimerTick == \E leader \in BOOLEAN : DoPullLogs(leader)

NextPull == Run \/ Stop \/ TimerTick \/ PushFromLeader

SpecPull == Init /\ [][NextPull]_vars

\* Run and Stop change timer_running alone and leave last as it was; every
\* other step of SpecPull is the call that last' names
TickStep(op) == last'.op = op /\ timer_running' = timer_running
PushStep == last'.op = "Push" /\ timer_running' = timer_running

\* C11: a DoPullLogs whose leader link resolves to no handle sends no request,
\* leaves the timer running (IsRunning() unchanged), leaves the manager's flag
\* false, leaves the log store, next_index and committed_index_ unchanged and
\* reports no error.
C11_NoLeaderTick ==
  [][TickStep("DoPullLogs:noleader")
       => /\ requests' = requests
          /\ IsRunning' /\ IsRunning
          /\ ~is_running_'
          /\ UNCHANGED <<all_log_entries_, next_index_, committed_log_index_, applied>>
          /\ ~aborted']_vars

\* a no-leader tick of the running timer after entries were stored
C11_Witness ==
  /\ last.op = "DoPullLogs:noleader"
  /\ IsRunning /\ ~is_running_ /\ ~aborted
  /\ Has(all_log_entries_, 0)
  /\ next_index_ > InitNextIndex

\* C13: IsRunning() is the timer's running state: true after Run(), false
\* after Stop(), changed by no DoPullLogs tick and by no Push; Stop() when
\* stopped and Run() when running change nothing.
C13_Lifecycle ==
  [][/\ IsRunning' = timer_running'
     /\ Run => IsRunning'
     /\ Stop => ~IsRunning'
     /\ (TimerTick \/ PushFromLeader) => (IsRunning' = IsRunning)
     /\ (Run /\ IsRunning) => UNCHANGED vars
     /\ (Stop /\ ~IsRunning) => UNCHANGED vars]_vars

\* stopped again after the timer ran, sent a request and a no-leader tick or a
\* Push followed
C13_Witness ==
  /\ ~IsRunning /\ ~aborted
  /\ requests # <<>>
  /\ last.op = "Push"

\* C18: with a leader link available, one DoPullLogs appends exactly one
\* request carrying this node's id and the current next_index, returns with
\* the lock released, and leaves the log store, next_index, the committed
\* index and the applied entries unchanged.
C18_PullSendsOneRequest ==
  [][TickStep("DoPullLogs:sent")
       => /\ requests' = Append(requests, [node |-> this_node_id_,
                                           next_index |-> next_index_])
          /\ ~mutex_'
          /\ UNCHANGED <<all_log_entries_, next_index_, committed_log_index_,
                         applied>>
          /\ ~aborted']_vars

\* a request was just sent from a log that already holds entries
C18_Witness ==
  /\ last.op = "DoPullLogs:sent"
  /\ requests # <<>>
  /\ requests[Len(requests)] = [node |-> this_node_id_, next_index |-> next_index_]
  /\ next_index_ > InitNextIndex
  /\ Has(all_log_entries_, 0)
  /\ ~mutex_

\* C15: the tick that follows a no-leader tick and does send a pull request
\* leaves the 'actively polling' flag true.
C15_FlagRecovers ==
  [][(last.op = "DoPullLogs:noleader" /\ TickStep("DoPullLogs:sent"))
       => is_running_']_vars

\* C16: a Push that arrives as the answer to a pull request while the manager
\* is stopped leaves the log store, next_index and the committed index
\* unchanged and applies nothing.
C16_PushWhileStoppedDropped ==
  [][(~IsRunning /\ requests # <<>> /\ PushStep)
       => UNCHANGED <<all_log_entries_, next_index_, committed_log_index_,
                      applied>>]_vars

(***************************************************************************)
(* SpecHeal: the timer keeps ticking, a leader link is available and the    *)
(* leader answers each pull request by pushing its entries from the         *)
(* requested next_index onward, one Push at a time; the leader may also     *)
(* push an entry on its own.                                                *)
(***************************************************************************)
\* the leader serves the oldest request: it pushes its entry at the requested
\* index and moves the request on, or drops the request once it is past the
\* end of its log
LeaderReply ==
  /\ ~aborted /\ requests # <<>>
  /\ LET r == Head(requests)
         idx == r.next_index
     IN IF idx \in Indices
        THEN /\ \E c \in CommitIndices :
                  Push(c, IF idx > 0 THEN leaderLog[idx - 1] ELSE leaderLog[idx],
                       idx, leaderLog[idx])
             /\ requests' = <<PullRequest(idx + 1)>> \o Tail(requests)
        ELSE /\ requests' = Tail(requests)
             /\ UNCHANGED <<core, last>>
  /\ UNCHANGED <<checked, leaderLog, pushVars, pcPull, mutex_, is_running_,
                 timer_running>>

HealTick == DoPullLogs(TRUE)

NextHeal == Run \/ HealTick \/ LeaderReply \/ PushFromLeader

SpecHeal ==
  /\ InitLeader
  /\ [][NextHeal]_vars
  /\ WF_vars(Run) /\ WF_vars(HealTick) /\ WF_vars(LeaderReply)

\* the follower holds the leader's entries at every index up to k
HealedUpTo(k) ==
  \A i \in 0..k :
    Has(all_log_entries_, i) /\ all_log_entries_[i].term = leaderLog[i]

\* C14: after a Push that stored an entry at index k while index k-1 was
\* absent or term-mismatched, the follower eventually holds, at every index
\* from 0 to k, an entry with the leader's term at that index.
C14_GapSelfHeals ==
  \A k \in Indices :
    (last.op = "Push" /\ last.lack /\ last.idx = k) ~> HealedUpTo(k)

====
